---- MODULE Spec2Model ----
(***************************************************************************)
(* Model of example/macOS/main.go: runVM, its watcher goroutine, the start *)
(* and stop completion callbacks, and the hypervisor platform they talk to.*)
(* The platform (vm.Start, vm.StateChangedNotify, vm.CanRequestStop,       *)
(* vm.RequestStop, vm.Stop) is modelled from the specification's section 6 *)
(* and 4.3; everything else is translated from main.go.                    *)
(***************************************************************************)
EXTENDS Integers, Sequences, FiniteSets, TLC

\* ---- bounds ----
\* CanRequestStop may answer true only while the loop counter is <= MaxIter.
MaxIter == 5
\* the planner is checked for 1..MaxHostCPUs logical cores,
MaxHostCPUs == 6
\* CPU bounds in 1..MaxAllowedCPU,
MaxAllowedCPU == 6
\* and memory bounds of 1..MaxMemSteps steps of MemStepMiB.
MaxMemSteps == 10

\* ---- program constants ----
\* make(chan error, 1)
ChanCap == 1
\* if i > 3
StopThreshold == 3
\* memory sizes are counted in MiB; the platform's bounds are multiples of
\* this step
MemStepMiB == 512
\* memorySize := uint64(4 * 1024 * 1024 * 1024), in MiB
DefaultMemoryMiB == 4 * 1024

\* ---- error values (sequences of tags; the empty sequence is nil) ----
NilErr == <<>>
StartErr == <<"start error">>
StopErr == <<"stop error">>
IOErr == <<"io error">>
AttachErr == <<"attachment error">>
ValidateErr == <<"validation error">>
InvalidConfigErr == <<"invalid configuration">>

\* fmt.Errorf("<stage>: %w", err)
Wrap(msg, err) == <<msg>> \o err

\* the identity stages of createMacPlatformConfiguration, in order, and the
\* message each failure is wrapped in
IdentityStages == <<"auxiliary storage", "hardware model", "machine identifier">>
IdentityMsg(stage) ==
    CASE stage = "auxiliary storage" -> "failed to create a new mac auxiliary storage"
      [] stage = "hardware model" -> "failed to create a new hardware model"
      [] stage = "machine identifier" -> "failed to create a new machine identifier"

\* ---- resource planner ----
\* mutant of ClampToAllowed: the lower bound is not applied
ClampToAllowed_NoMin(v, minAllowed, maxAllowed) ==
    IF v > maxAllowed THEN maxAllowed ELSE v

\* if v > maxAllowed { v = maxAllowed }; if v < minAllowed { v = minAllowed }
ClampToAllowed(v, minAllowed, maxAllowed) ==
    LET capped == IF v > maxAllowed THEN maxAllowed ELSE v
    IN  IF capped < minAllowed THEN minAllowed ELSE capped

\* virtualCPUCount := uint(NumCPU() - 1); if virtualCPUCount <= 1 { = 1 }
\* (NumCPU() >= 1, so the conversion to uint does not wrap)
DefaultCPUCount(numCPU) ==
    LET virtualCPUCount == numCPU - 1
    IN  IF virtualCPUCount <= 1 THEN 1 ELSE virtualCPUCount

computeCPUCount(numCPU, minAllowed, maxAllowed) ==
    ClampToAllowed(DefaultCPUCount(numCPU), minAllowed, maxAllowed)

computeMemorySize(minAllowed, maxAllowed) ==
    ClampToAllowed(DefaultMemoryMiB, minAllowed, maxAllowed)

\* ---- block device ----
\* vz.CreateDiskImage: an existing image is reported as "exists" and left
\* alone; otherwise the image is created blank, or the creation fails
CreateDiskImageOutcomes(d) ==
    IF d = "absent" THEN {"created", "io error"} ELSE {"exists", "io error"}

DiskAfterCreate(d, outcome) == IF outcome = "created" THEN "blank" ELSE d

\* mutant of CreateDiskImageError: no os.IsExist test
CreateDiskImageError_NoIsExist(outcome) ==
    IF outcome = "created" THEN NilErr
    ELSE Wrap("failed to create disk image", IF outcome = "exists" THEN <<"file exists">> ELSE IOErr)

\* if err := vz.CreateDiskImage(...); err != nil { if !os.IsExist(err) {
\*     return nil, fmt.Errorf("failed to create disk image: %w", err) } }
CreateDiskImageError(outcome) ==
    IF outcome = "io error" THEN Wrap("failed to create disk image", IOErr)
    ELSE NilErr

\* createBlockDeviceConfiguration: the error it returns (NilErr: a storage
\* device configuration is returned)
createBlockDeviceError(outcome, attachOk) ==
    IF CreateDiskImageError(outcome) # NilErr THEN CreateDiskImageError(outcome)
    ELSE IF ~attachOk THEN AttachErr
    ELSE NilErr

\* ---- validation ----
\* mutant of ValidationError: a (false, nil) validation is accepted
ValidationError_AcceptsFalse(validated, failed) ==
    IF failed THEN Wrap("failed to validate configuration", ValidateErr)
    ELSE NilErr

\* validated, err := config.Validate(); if err != nil { wrap }; if !validated
\* { "invalid configuration" }
ValidationError(validated, failed) ==
    IF failed THEN Wrap("failed to validate configuration", ValidateErr)
    ELSE IF ~validated THEN InvalidConfigErr
    ELSE NilErr

\* fmt.Errorf("failed to start vm: %w", err)
WrapStartErr(err) == <<"failed to start vm">> \o err

\* newState == Stopped || newState == Stopping   (mutant: Running too)
IsStopNotification_Running(newState) == newState \in {"Stopped", "Stopping", "Running"}

IsStopNotification(newState) == newState = "Stopped" \/ newState = "Stopping"

VARIABLES
    pc,             \* position of runVM
    lockDepth,      \* LockOSThread nesting counter
    launched,       \* vz.NewVirtualMachine + vm.Start have run
    errCh,          \* buffered channel of error values, capacity ChanCap
    result,         \* value returned by runVM (meaningful when pc = "done")
    i,              \* loop counter of cleanup
    wpc,            \* position of the watcher goroutine
    werr,           \* error the watcher read from errCh
    startCb,        \* position of the start completion callback
    stopCbPending,  \* forced-stop completion callbacks not yet invoked
    vmState,        \* platform: state of the instance
    startOutcome,   \* platform: how the start request ended
    notifyQ,        \* platform: state notifications not yet received
    stopAccepted,   \* platform: some RequestStop was accepted
    ctxCancelled,   \* the context handed to run was cancelled
    \* ---- history ----
    canStopLog,     \* answers of CanRequestStop, in order
    attempts,       \* RequestStop calls issued
    forcedStops,    \* vm.Stop calls issued
    firstForceAt,   \* attempts issued when the first vm.Stop was issued
    observed,       \* states the watcher has received
    attemptsAtTerm, \* attempts issued when the watcher first received Stopping/Stopped (-1: not yet)
    errChWriters,   \* who has ever sent on errCh
    stopFailed,     \* some RequestStop returned false or an error
    stopErrLogged,  \* some forced-stop callback carried an error
    errEarly,       \* start callback carried an error before any stop/error notification was emitted
    cancelledAt,    \* vmState when the context was cancelled
    \* ---- configuration ----
    hostCPUs,       \* runtime.NumCPU()
    minCPU, maxCPU, \* platform-reported CPU bounds
    minMem, maxMem, \* platform-reported memory bounds, in MiB
    cpuCount,       \* planned CPU count (0: not planned)
    memorySize,     \* planned memory size in MiB (0: not planned)
    disk,           \* content of the disk image: "absent", "guest data", "blank"
    diskCreate,     \* what vz.CreateDiskImage did: "none", "created", "exists", "io error"
    storageDevice,  \* createBlockDeviceConfiguration returned a device
    descriptor,     \* setupVMConfiguration returned a configuration
    validation,     \* what config.Validate() returned
    stagesRun       \* configuration stages that have run, in order

vars == <<pc, lockDepth, launched, errCh, result, i, wpc, werr, startCb,
          stopCbPending, vmState, startOutcome, notifyQ, stopAccepted,
          ctxCancelled, canStopLog, attempts, forcedStops, firstForceAt,
          observed, attemptsAtTerm, errChWriters, stopFailed, stopErrLogged,
          errEarly, cancelledAt, hostCPUs, minCPU, maxCPU, minMem, maxMem,
          cpuCount, memorySize, disk, diskCreate, storageDevice, descriptor,
          validation, stagesRun>>

mainVars == <<pc, lockDepth, launched, result, i>>
watcherVars == <<wpc, werr, observed, attemptsAtTerm>>
platformVars == <<vmState, startOutcome, notifyQ, stopAccepted>>
loopHist == <<canStopLog, attempts, forcedStops, firstForceAt, stopFailed>>
ctxVars == <<ctxCancelled, cancelledAt>>
hostVars == <<hostCPUs, minCPU, maxCPU, minMem, maxMem>>
cfgVars == <<hostVars, cpuCount, memorySize, disk, diskCreate, storageDevice,
             descriptor, validation, stagesRun>>

InitRun ==
    /\ pc = "enter"
    /\ lockDepth = 0
    /\ launched = FALSE
    /\ errCh = <<>>
    /\ result = NilErr
    /\ i = 0
    /\ wpc = "idle"
    /\ werr = NilErr
    /\ startCb = "none"
    /\ stopCbPending = 0
    /\ vmState = "Created"
    /\ startOutcome = "none"
    /\ notifyQ = <<>>
    /\ stopAccepted = FALSE
    /\ ctxCancelled = FALSE
    /\ canStopLog = <<>>
    /\ attempts = 0
    /\ forcedStops = 0
    /\ firstForceAt = 0
    /\ observed = {}
    /\ attemptsAtTerm = -1
    /\ errChWriters = {}
    /\ stopFailed = FALSE
    /\ stopErrLogged = FALSE
    /\ errEarly = FALSE
    /\ cancelledAt = "none"
    /\ cpuCount = 0
    /\ memorySize = 0
    /\ disk \in {"absent", "guest data"}
    /\ diskCreate = "none"
    /\ storageDevice = FALSE
    /\ descriptor = FALSE
    /\ validation = [ran |-> FALSE, validated |-> FALSE, failed |-> FALSE]
    /\ stagesRun = <<>>

\* hosts a session is run on: 5 cores with CPU bounds 1..8 and memory bounds
\* 512 MiB..8 GiB, and a single core with bounds 1..2 and 512 MiB..2 GiB
SessionHosts ==
    { <<5, 1, 8, 512, 8192>>, <<1, 1, 2, 512, 2048>> }

Init ==
    /\ InitRun
    /\ \E h \in SessionHosts :
         /\ hostCPUs = h[1]
         /\ minCPU = h[2]
         /\ maxCPU = h[3]
         /\ minMem = h[4]
         /\ maxMem = h[5]

\* every host the planner is checked for, inverted bounds included
MemSizes == { k * MemStepMiB : k \in 1..MaxMemSteps }

PlannerInit ==
    /\ InitRun
    /\ hostCPUs \in 1..MaxHostCPUs
    /\ minCPU \in 1..MaxAllowedCPU
    /\ maxCPU \in 1..MaxAllowedCPU
    /\ minMem \in MemSizes
    /\ maxMem \in MemSizes

\* ------------------------------------------------------------------
\* runVM
\* ------------------------------------------------------------------

\* runtime.LockOSThread(); defer runtime.UnlockOSThread()
Enter ==
    /\ UNCHANGED cfgVars
    /\ pc = "enter"
    /\ pc' = "config"
    /\ lockDepth' = lockDepth + 1
    /\ UNCHANGED <<launched, errCh, result, i, watcherVars, startCb,
                   stopCbPending, platformVars, ctxVars, loopHist,
                   errChWriters, stopErrLogged, errEarly>>

\* mutant of CreateMacPlatformConfiguration: the stages' errors are tested
\* only after all three stages have run
CreateMacPlatformConfiguration_ChecksLate ==
    /\ pc = "config"
    /\ \E failing \in 0..Len(IdentityStages) :
         /\ stagesRun' = stagesRun \o IdentityStages
         /\ IF failing = 0
            THEN /\ pc' = "setup"
                 /\ UNCHANGED <<result, lockDepth>>
            ELSE /\ pc' = "done"
                 /\ result' = Wrap(IdentityMsg(IdentityStages[failing]), IOErr)
                 /\ lockDepth' = lockDepth - 1
    /\ UNCHANGED <<launched, errCh, i, watcherVars, startCb, stopCbPending,
                   platformVars, ctxVars, loopHist, errChWriters,
                   stopErrLogged, errEarly, hostVars, cpuCount, memorySize,
                   disk, diskCreate, storageDevice, descriptor, validation>>

\* platformConfig, err := createMacPlatformConfiguration(); if err != nil
\* { return err }.  Stage number `failing` fails (0: none does); a failure
\* returns at once, so the later stages do not run.
CreateMacPlatformConfiguration ==
    /\ pc = "config"
    /\ \E failing \in 0..Len(IdentityStages) :
         IF failing = 0
         THEN /\ stagesRun' = stagesRun \o IdentityStages
              /\ pc' = "setup"
              /\ UNCHANGED <<result, lockDepth>>
         ELSE /\ stagesRun' = stagesRun \o SubSeq(IdentityStages, 1, failing)
              /\ pc' = "done"
              /\ result' = Wrap(IdentityMsg(IdentityStages[failing]), IOErr)
              /\ lockDepth' = lockDepth - 1
    /\ UNCHANGED <<launched, errCh, i, watcherVars, startCb, stopCbPending,
                   platformVars, ctxVars, loopHist, errChWriters,
                   stopErrLogged, errEarly, hostVars, cpuCount, memorySize,
                   disk, diskCreate, storageDevice, descriptor, validation>>

\* config, err := setupVMConfiguration(platformConfig); if err != nil
\* { return err }.  Plans CPU and memory, creates the block device, then
\* validates; each failure returns at once.
SetupVMConfiguration ==
    /\ pc = "setup"
    /\ cpuCount' = computeCPUCount(hostCPUs, minCPU, maxCPU)
    /\ memorySize' = computeMemorySize(minMem, maxMem)
    /\ \E outcome \in CreateDiskImageOutcomes(disk), attachOk \in BOOLEAN,
          validated \in BOOLEAN, failed \in BOOLEAN :
         LET blockErr == createBlockDeviceError(outcome, attachOk)
             attachRan == CreateDiskImageError(outcome) = NilErr
             err == IF blockErr # NilErr
                    THEN Wrap("failed to create block device configuration", blockErr)
                    ELSE ValidationError(validated, failed)
         IN  /\ disk' = DiskAfterCreate(disk, outcome)
             /\ diskCreate' = outcome
             /\ storageDevice' = (blockErr = NilErr)
             /\ validation' = IF blockErr = NilErr
                              THEN [ran |-> TRUE, validated |-> validated, failed |-> failed]
                              ELSE validation
             /\ stagesRun' = stagesRun \o <<"plan", "disk image">>
                               \o (IF attachRan THEN <<"attachment">> ELSE <<>>)
                               \o (IF blockErr = NilErr THEN <<"validate">> ELSE <<>>)
             /\ descriptor' = (err = NilErr)
             /\ IF err = NilErr
                THEN /\ pc' = "launch"
                     /\ UNCHANGED <<result, lockDepth>>
                ELSE /\ pc' = "done"
                     /\ result' = err
                     /\ lockDepth' = lockDepth - 1
    /\ UNCHANGED <<launched, errCh, i, watcherVars, startCb, stopCbPending,
                   platformVars, ctxVars, loopHist, errChWriters,
                   stopErrLogged, errEarly, hostVars>>

\* vm := NewVirtualMachine(config); errCh := make(chan error, 1);
\* vm.Start(callback); go watcher
Launch ==
    /\ UNCHANGED cfgVars
    /\ pc = "launch"
    /\ pc' = "gui"
    /\ launched' = TRUE
    /\ errCh' = <<>>
    /\ startCb' = "pending"
    /\ wpc' = "select"
    /\ vmState' = "Starting"
    /\ notifyQ' = Append(notifyQ, "Starting")
    /\ UNCHANGED <<lockDepth, result, i, werr, observed, attemptsAtTerm, stopCbPending,
                   startOutcome, stopAccepted, ctxVars, loopHist,
                   errChWriters, stopErrLogged, errEarly>>

\* runtime.LockOSThread(); vm.StartGraphicApplication(960, 600) is entered
GraphicAppStart ==
    /\ UNCHANGED cfgVars
    /\ pc = "gui"
    /\ pc' = "inGui"
    /\ lockDepth' = lockDepth + 1
    /\ UNCHANGED <<launched, errCh, result, i, watcherVars, startCb,
                   stopCbPending, platformVars, ctxVars, loopHist,
                   errChWriters, stopErrLogged, errEarly>>

\* mutant of GraphicAppReturn: the inner UnlockOSThread releases the thread
\* altogether instead of undoing one LockOSThread
GraphicAppReturn_UnlockAll ==
    /\ UNCHANGED cfgVars
    /\ pc = "inGui"
    /\ pc' = "check"
    /\ lockDepth' = 0
    /\ i' = 1
    /\ UNCHANGED <<launched, errCh, result, watcherVars, startCb,
                   stopCbPending, platformVars, ctxVars, loopHist,
                   errChWriters, stopErrLogged, errEarly>>

\* StartGraphicApplication returns; runtime.UnlockOSThread(); cleanup() is
\* entered with i := 1
GraphicAppReturn ==
    /\ UNCHANGED cfgVars
    /\ pc = "inGui"
    /\ pc' = "check"
    /\ lockDepth' = lockDepth - 1
    /\ i' = 1
    /\ UNCHANGED <<launched, errCh, result, watcherVars, startCb,
                   stopCbPending, platformVars, ctxVars, loopHist,
                   errChWriters, stopErrLogged, errEarly>>

\* loop condition of cleanup: vm.CanRequestStop(); false ends the loop
CleanupCheck ==
    /\ UNCHANGED cfgVars
    /\ pc = "check"
    /\ \E can \in BOOLEAN :
         /\ can => i <= MaxIter
         /\ canStopLog' = Append(canStopLog, can)
         /\ pc' = IF can THEN "request" ELSE "recv"
    /\ UNCHANGED <<lockDepth, launched, errCh, result, i, watcherVars,
                   startCb, stopCbPending, platformVars, ctxVars, attempts,
                   forcedStops, firstForceAt, stopFailed, errChWriters,
                   stopErrLogged, errEarly>>

\* result, err := vm.RequestStop(); log.Printf(...)
CleanupRequestStop ==
    /\ UNCHANGED cfgVars
    /\ pc = "request"
    /\ pc' = "sleep"
    /\ attempts' = attempts + 1
    /\ \E res \in {"accepted", "refused", "error"} :
         /\ stopAccepted' = (stopAccepted \/ res = "accepted")
         /\ stopFailed' = (stopFailed \/ res # "accepted")
    /\ UNCHANGED <<lockDepth, launched, errCh, result, i, watcherVars,
                   startCb, stopCbPending, vmState, startOutcome, notifyQ,
                   ctxVars, canStopLog, forcedStops, firstForceAt,
                   errChWriters, stopErrLogged, errEarly>>

\* time.Sleep(time.Second * 3)
CleanupSleep ==
    /\ UNCHANGED cfgVars
    /\ pc = "sleep"
    /\ pc' = "escalate"
    /\ UNCHANGED <<lockDepth, launched, errCh, result, i, watcherVars,
                   startCb, stopCbPending, platformVars, ctxVars, loopHist,
                   errChWriters, stopErrLogged, errEarly>>

\* if i > 3 { vm.Stop(callback) }; i++
CleanupEscalate ==
    /\ UNCHANGED cfgVars
    /\ pc = "escalate"
    /\ pc' = "check"
    /\ i' = i + 1
    /\ IF i > StopThreshold
       THEN /\ forcedStops' = forcedStops + 1
            /\ stopCbPending' = stopCbPending + 1
            /\ firstForceAt' = IF forcedStops = 0 THEN attempts ELSE firstForceAt
       ELSE UNCHANGED <<forcedStops, stopCbPending, firstForceAt>>
    /\ UNCHANGED <<lockDepth, launched, errCh, result, watcherVars, startCb,
                   platformVars, ctxVars, canStopLog, attempts, stopFailed,
                   errChWriters, stopErrLogged, errEarly>>

\* mutant of FinalReceive: a receive that does not block and returns nil
\* when errCh is empty
FinalReceive_NonBlocking ==
    /\ UNCHANGED cfgVars
    /\ pc = "recv"
    /\ IF Len(errCh) > 0
       THEN /\ result' = Head(errCh)
            /\ errCh' = Tail(errCh)
       ELSE /\ result' = NilErr
            /\ UNCHANGED errCh
    /\ pc' = "done"
    /\ lockDepth' = lockDepth - 1
    /\ UNCHANGED <<launched, i, watcherVars, startCb, stopCbPending,
                   platformVars, ctxVars, loopHist, errChWriters,
                   stopErrLogged, errEarly>>

\* return <-errCh  (the deferred unlock runs)
FinalReceive ==
    /\ UNCHANGED cfgVars
    /\ pc = "recv"
    /\ Len(errCh) > 0
    /\ result' = Head(errCh)
    /\ errCh' = Tail(errCh)
    /\ pc' = "done"
    /\ lockDepth' = lockDepth - 1
    /\ UNCHANGED <<launched, i, watcherVars, startCb, stopCbPending,
                   platformVars, ctxVars, loopHist, errChWriters,
                   stopErrLogged, errEarly>>

\* ------------------------------------------------------------------
\* watcher goroutine (the merge loop)
\* ------------------------------------------------------------------

\* mutant of WatcherRecvState: a stop notification that precedes every
\* Running notification is reported as a start failure
WatcherRecvState_EarlyStopIsError ==
    /\ UNCHANGED cfgVars
    /\ wpc = "select"
    /\ Len(notifyQ) > 0
    /\ LET newState == Head(notifyQ)
           early == IsStopNotification(newState) /\ "Running" \notin observed
       IN
         /\ notifyQ' = Tail(notifyQ)
         /\ observed' = observed \cup {newState}
         /\ attemptsAtTerm' = IF IsStopNotification(newState) /\ attemptsAtTerm = -1
                              THEN attempts ELSE attemptsAtTerm
         /\ werr' = IF early THEN <<"stopped before running">> ELSE werr
         /\ wpc' = IF early THEN "sendWrap"
                   ELSE IF IsStopNotification(newState) THEN "sendNil" ELSE "select"
    /\ UNCHANGED <<mainVars, errCh, startCb, stopCbPending, vmState,
                   startOutcome, stopAccepted, ctxVars, loopHist,
                   errChWriters, stopErrLogged, errEarly>>

\* case newState := <-vm.StateChangedNotify()
WatcherRecvState ==
    /\ UNCHANGED cfgVars
    /\ wpc = "select"
    /\ Len(notifyQ) > 0
    /\ LET newState == Head(notifyQ) IN
         /\ notifyQ' = Tail(notifyQ)
         /\ observed' = observed \cup {newState}
         /\ attemptsAtTerm' = IF IsStopNotification(newState) /\ attemptsAtTerm = -1
                              THEN attempts ELSE attemptsAtTerm
         /\ wpc' = IF IsStopNotification(newState) THEN "sendNil" ELSE "select"
    /\ UNCHANGED <<mainVars, errCh, werr, startCb, stopCbPending, vmState,
                   startOutcome, stopAccepted, ctxVars, loopHist,
                   errChWriters, stopErrLogged, errEarly>>

\* case err := <-errCh
WatcherRecvErr ==
    /\ UNCHANGED cfgVars
    /\ wpc = "select"
    /\ Len(errCh) > 0
    /\ werr' = Head(errCh)
    /\ errCh' = Tail(errCh)
    /\ wpc' = "sendWrap"
    /\ UNCHANGED <<mainVars, observed, attemptsAtTerm, startCb, stopCbPending, platformVars,
                   ctxVars, loopHist, errChWriters, stopErrLogged, errEarly>>

\* errCh <- nil; return   (blocks while the buffer is full)
WatcherSendNil ==
    /\ UNCHANGED cfgVars
    /\ wpc = "sendNil"
    /\ Len(errCh) < ChanCap
    /\ errCh' = Append(errCh, NilErr)
    /\ errChWriters' = errChWriters \cup {"watcher"}
    /\ wpc' = "exit"
    /\ UNCHANGED <<mainVars, werr, observed, attemptsAtTerm, startCb, stopCbPending,
                   platformVars, ctxVars, loopHist, stopErrLogged, errEarly>>

\* errCh <- fmt.Errorf("failed to start vm: %w", err); return
WatcherSendWrap ==
    /\ UNCHANGED cfgVars
    /\ wpc = "sendWrap"
    /\ Len(errCh) < ChanCap
    /\ errCh' = Append(errCh, WrapStartErr(werr))
    /\ errChWriters' = errChWriters \cup {"watcher"}
    /\ wpc' = "exit"
    /\ UNCHANGED <<mainVars, werr, observed, attemptsAtTerm, startCb, stopCbPending,
                   platformVars, ctxVars, loopHist, stopErrLogged, errEarly>>

Watcher == WatcherRecvState \/ WatcherRecvErr \/ WatcherSendNil \/ WatcherSendWrap

\* ------------------------------------------------------------------
\* completion callbacks
\* ------------------------------------------------------------------

\* the platform invokes func(err error) given to vm.Start; a nil err sends
\* nothing
StartCallback ==
    /\ UNCHANGED cfgVars
    /\ startCb = "pending"
    /\ startOutcome # "none"
    /\ startCb' = IF startOutcome = "fail" THEN "sending" ELSE "done"
    /\ UNCHANGED <<mainVars, errCh, watcherVars, stopCbPending, platformVars,
                   ctxVars, loopHist, errChWriters, stopErrLogged, errEarly>>

\* errCh <- err inside the start callback (blocks while the buffer is full)
StartCallbackSend ==
    /\ UNCHANGED cfgVars
    /\ startCb = "sending"
    /\ Len(errCh) < ChanCap
    /\ errCh' = Append(errCh, StartErr)
    /\ errChWriters' = errChWriters \cup {"startCb"}
    /\ errEarly' = (vmState = "Starting")
    /\ startCb' = "done"
    /\ UNCHANGED <<mainVars, watcherVars, stopCbPending, platformVars,
                   ctxVars, loopHist, stopErrLogged>>

\* mutant of StopCallback: the forced-stop callback reports its error on errCh
StopCallback_SendsErr ==
    /\ UNCHANGED cfgVars
    /\ stopCbPending > 0
    /\ stopCbPending' = stopCbPending - 1
    /\ \E err \in {NilErr, StopErr} :
         /\ stopErrLogged' = (stopErrLogged \/ err # NilErr)
         /\ IF err # NilErr /\ Len(errCh) < ChanCap
            THEN /\ errCh' = Append(errCh, err)
                 /\ errChWriters' = errChWriters \cup {"stopCb"}
            ELSE UNCHANGED <<errCh, errChWriters>>
    /\ UNCHANGED <<mainVars, watcherVars, startCb, platformVars, ctxVars,
                   loopHist, errEarly>>

\* the platform invokes func(err error) given to vm.Stop: it only logs
StopCallback ==
    /\ UNCHANGED cfgVars
    /\ stopCbPending > 0
    /\ stopCbPending' = stopCbPending - 1
    /\ \E err \in {NilErr, StopErr} :
         stopErrLogged' = (stopErrLogged \/ err # NilErr)
    /\ UNCHANGED <<mainVars, errCh, watcherVars, startCb, platformVars,
                   ctxVars, loopHist, errChWriters, errEarly>>

\* ------------------------------------------------------------------
\* hypervisor platform and caller
\* ------------------------------------------------------------------

\* every state change is pushed on the notification feed, in order
Transition(newState) ==
    /\ vmState' = newState
    /\ notifyQ' = Append(notifyQ, newState)

\* the start request completes, with or without an error
PlatformStartResult ==
    /\ UNCHANGED cfgVars
    /\ vmState = "Starting"
    /\ startOutcome = "none"
    /\ \E o \in {"ok", "fail"} : startOutcome' = o
    /\ UNCHANGED <<mainVars, errCh, watcherVars, startCb, stopCbPending,
                   vmState, notifyQ, stopAccepted, ctxVars, loopHist,
                   errChWriters, stopErrLogged, errEarly>>

\* Starting -> Running
PlatformRunning ==
    /\ UNCHANGED cfgVars
    /\ vmState = "Starting"
    /\ startOutcome = "ok"
    /\ Transition("Running")
    /\ UNCHANGED <<mainVars, errCh, watcherVars, startCb, stopCbPending,
                   startOutcome, stopAccepted, ctxVars, loopHist,
                   errChWriters, stopErrLogged, errEarly>>

\* a failed start leaves the instance in Error or Stopped
PlatformFailState ==
    /\ UNCHANGED cfgVars
    /\ vmState = "Starting"
    /\ startOutcome = "fail"
    /\ \E s \in {"Error", "Stopped"} : Transition(s)
    /\ UNCHANGED <<mainVars, errCh, watcherVars, startCb, stopCbPending,
                   startOutcome, stopAccepted, ctxVars, loopHist,
                   errChWriters, stopErrLogged, errEarly>>

\* the guest begins to stop (on its own, on a stop request, or forced);
\* it may do so before Running was ever reported
GuestBeginStop ==
    /\ UNCHANGED cfgVars
    /\ vmState \in {"Starting", "Running"}
    /\ startOutcome = "ok"
    /\ Transition("Stopping")
    /\ UNCHANGED <<mainVars, errCh, watcherVars, startCb, stopCbPending,
                   startOutcome, stopAccepted, ctxVars, loopHist,
                   errChWriters, stopErrLogged, errEarly>>

\* the guest has stopped
GuestStopped ==
    /\ UNCHANGED cfgVars
    /\ vmState \in {"Starting", "Running", "Stopping"}
    /\ startOutcome = "ok"
    /\ Transition("Stopped")
    /\ UNCHANGED <<mainVars, errCh, watcherVars, startCb, stopCbPending,
                   startOutcome, stopAccepted, ctxVars, loopHist,
                   errChWriters, stopErrLogged, errEarly>>

\* the caller cancels the context it passed to run; runVM never reads ctx
CancelContext ==
    /\ UNCHANGED cfgVars
    /\ ~ctxCancelled
    /\ pc # "done"
    /\ ctxCancelled' = TRUE
    /\ cancelledAt' = IF attempts = 0 /\ forcedStops = 0
                         /\ vmState \in {"Created", "Starting", "Running"}
                      THEN "beforeStopping" ELSE "afterStopping"
    /\ UNCHANGED <<mainVars, errCh, watcherVars, startCb, stopCbPending,
                   platformVars, loopHist, errChWriters, stopErrLogged,
                   errEarly>>

\* ------------------------------------------------------------------
\* specifications
\* ------------------------------------------------------------------

Next ==
    \/ Enter \/ CreateMacPlatformConfiguration \/ SetupVMConfiguration
    \/ Launch \/ GraphicAppStart \/ GraphicAppReturn
    \/ CleanupCheck \/ CleanupRequestStop \/ CleanupSleep \/ CleanupEscalate
    \/ FinalReceive
    \/ WatcherRecvState \/ WatcherRecvErr \/ WatcherSendNil \/ WatcherSendWrap
    \/ StartCallback \/ StartCallbackSend \/ StopCallback
    \/ PlatformStartResult \/ PlatformRunning \/ PlatformFailState
    \/ GuestBeginStop \/ GuestStopped
    \/ CancelContext

Spec == Init /\ [][Next]_vars

\* the configuration phase alone, for every host of PlannerInit
PlannerNext == Enter \/ CreateMacPlatformConfiguration \/ SetupVMConfiguration

PlannerSpec == PlannerInit /\ [][PlannerNext]_vars

\* steps of runVM that do not wait on the user: everything except the
\* return of the graphic application
MainStep ==
    \/ Enter \/ CreateMacPlatformConfiguration \/ SetupVMConfiguration
    \/ Launch \/ GraphicAppStart
    \/ CleanupCheck \/ CleanupRequestStop \/ CleanupSleep \/ CleanupEscalate
    \/ FinalReceive

\* the platform stops the guest after an accepted stop request or a forced stop
PlatformHonoursStop == (stopAccepted \/ forcedStops > 0) /\ GuestStopped

\* goroutines and callbacks are scheduled; the platform completes the start
\* request and honours stops
FairSpec ==
    /\ Spec
    /\ WF_vars(MainStep)
    /\ WF_vars(Watcher)
    /\ WF_vars(StartCallback \/ StartCallbackSend)
    /\ WF_vars(StopCallback)
    /\ WF_vars(PlatformStartResult \/ PlatformRunning \/ PlatformFailState)
    /\ WF_vars(PlatformHonoursStop)

TypeOK ==
    /\ pc \in {"enter", "config", "setup", "launch", "gui", "inGui", "check",
               "request", "sleep", "escalate", "recv", "done"}
    /\ lockDepth \in 0..2
    /\ Len(errCh) <= ChanCap
    /\ wpc \in {"idle", "select", "sendNil", "sendWrap", "exit"}
    /\ startCb \in {"none", "pending", "sending", "done"}
    /\ vmState \in {"Created", "Starting", "Running", "Stopping", "Stopped", "Error"}
    /\ forcedStops \in 0..MaxIter
    /\ attempts \in 0..MaxIter

\* ------------------------------------------------------------------
\* properties
\* ------------------------------------------------------------------

\* the watcher has received a Stopping or a Stopped notification
StopObserved == observed \cap {"Stopping", "Stopped"} # {}

\* the cleanup loop has ended
CleanupEnded == launched /\ pc \in {"recv", "done"}

AllTrue(log) == \A k \in 1..Len(log) : log[k] = TRUE

\* false, true, false, true, ... (false first)
Alternating(log) == \A k \in 1..Len(log) : log[k] = (k % 2 = 0)

\* C1: the forced stop (vm.Stop) is issued at most once per session, even
\* if the loop keeps iterating after the attempt counter has exceeded 3.
C1_ForcedStopAtMostOnce == forcedStops <= 1

\* C2: the shutdown loop never ends without a terminal notification having
\* been observed; a false CanRequestStop only skips the attempt.
C2_LoopEndsOnlyAfterTerminal == CleanupEnded => StopObserved

\* C3: once the shutdown sequence has begun, run eventually returns, for
\* every behaviour of the capability flag and of the stop requests.
C3_ShutdownConverges == (pc = "check") ~> (pc = "done")

\* C4: with CanRequestStop always true and no terminal notification through
\* 4 attempts, exactly one forced stop is issued, after the 3rd attempt, and
\* the loop issues no further attempt once the Stopped notification that
\* follows has been observed.
C4_EscalatesExactlyOnce ==
    (AllTrue(canStopLog) /\ (attemptsAtTerm = -1 \/ attemptsAtTerm >= 4))
        => /\ forcedStops <= 1
           /\ (forcedStops >= 1 => firstForceAt >= StopThreshold)
           /\ (CleanupEnded => forcedStops = 1 /\ StopObserved)

\* C5: with CanRequestStop alternating false/true (false first) and no start
\* error, run eventually returns success having issued at most 3 stop
\* requests and no forced stop.
C5_ConvergesWithoutEscalation ==
    [](  (canStopLog # <<>> /\ Alternating(canStopLog) /\ startOutcome = "ok")
      => <>(pc = "done" /\ result = NilErr /\ attempts <= 3 /\ forcedStops = 0))

\* C6: if, when run returns, the merge loop has already observed a terminal
\* notification (and so never observed a completion error), run returns nil:
\* a completion error still unread in errCh, or delivered late, never
\* replaces that success.
C6_FirstTerminalWins ==
    [][(pc = "recv" /\ pc' = "done" /\ StopObserved /\ wpc \in {"sendNil", "exit"})
          => result' = NilErr]_vars

\* C7: a start error delivered before any terminal notification makes run
\* return the "failed to start vm" error wrapping it, never nil and never
\* the bare error.
C7_StartErrorWrapped ==
    (pc = "done" /\ errEarly) => result = WrapStartErr(StartErr)

\* C8: stop-phase failures (RequestStop failing, the forced-stop callback
\* carrying an error) never write to errCh and never become run's result:
\* after launch run returns an error only because the start failed.
C8_StopFailuresNeverReturned ==
    /\ errChWriters \subseteq {"startCb", "watcher"}
    /\ (pc = "done" /\ launched /\ result # NilErr)
          => /\ startOutcome = "fail"
             /\ result \in {StartErr, WrapStartErr(StartErr)}

\* C8 witness: run returned success although stop requests failed and a
\* forced-stop callback carried an error
C8_Witness ==
    pc = "done" /\ result = NilErr /\ stopFailed /\ stopErrLogged /\ forcedStops >= 1

C10_CancellationReturns ==
    /\ [](cancelledAt = "beforeStopping" => <>(pc = "done"))
    /\ [][(ctxCancelled /\ pc \in {"check", "request", "sleep", "escalate"})
            => pc' \in {"check", "request", "sleep", "escalate", "recv"}]_vars

\* ---- configuration and planner properties ----

StageRan(stage) == \E k \in 1..Len(stagesRun) : stagesRun[k] = stage

Max2(a, b) == IF a >= b THEN a ELSE b
Min2(a, b) == IF a <= b THEN a ELSE b

\* C11: a Stopped notification received before any Running notification,
\* with no start error, makes run return without error.
C11_StoppedBeforeRunning ==
    (pc = "done" /\ startOutcome = "ok"
       /\ "Stopped" \in observed /\ "Running" \notin observed)
        => result = NilErr

\* C11 witness: run returned nil after Stopped was received and Running never
C11_Witness ==
    /\ pc = "done" /\ result = NilErr /\ startOutcome = "ok"
    /\ "Stopped" \in observed /\ "Running" \notin observed

\* C12: with min <= max, the planned CPU count is
\* max(min, min(max(1, cores - 1), max)) and the planned memory is
\* max(min, min(4 GiB, max)); both lie in [min, max] and clamping the result
\* again returns it.  5 cores with bounds 1..8 give 4; 16 GiB with bounds
\* 512 MiB..8 GiB gives 8 GiB.
C12_ClampLaw ==
    /\ (StageRan("plan") /\ minCPU <= maxCPU)
          => /\ cpuCount = Max2(minCPU, Min2(Max2(1, hostCPUs - 1), maxCPU))
             /\ cpuCount \in minCPU..maxCPU
             /\ ClampToAllowed(cpuCount, minCPU, maxCPU) = cpuCount
    /\ (StageRan("plan") /\ minMem <= maxMem)
          => /\ memorySize = Max2(minMem, Min2(DefaultMemoryMiB, maxMem))
             /\ memorySize \in minMem..maxMem
             /\ ClampToAllowed(memorySize, minMem, maxMem) = memorySize
    /\ computeCPUCount(5, 1, 8) = 4
    /\ ClampToAllowed(16 * 1024, 512, 8 * 1024) = 8 * 1024

\* C12 witness: the CPU count was capped at max and the memory raised to min
C12_Witness ==
    /\ StageRan("plan")
    /\ minCPU <= maxCPU /\ hostCPUs - 1 > maxCPU /\ cpuCount = maxCPU
    /\ minMem <= maxMem /\ minMem > DefaultMemoryMiB /\ memorySize = minMem

\* C13: with inverted bounds (min > max) for CPU or memory the planner
\* returns no planned value and run returns a resource-bounds error.
ResourceBoundsErr == <<"resource bounds error">>

C13_InvertedBoundsRejected ==
    (StageRan("plan") /\ (minCPU > maxCPU \/ minMem > maxMem))
        => /\ cpuCount = 0 /\ memorySize = 0
           /\ pc = "done" /\ result = ResourceBoundsErr

\* C14: a validation error is returned wrapped as a configuration error;
\* (false, nil) is returned as "invalid configuration"; a configuration is
\* returned only after (true, nil).
C14_ValidationMapping ==
    /\ (validation.ran /\ validation.failed)
          => /\ pc = "done" /\ ~descriptor
             /\ result = Wrap("failed to validate configuration", ValidateErr)
    /\ (validation.ran /\ ~validation.failed /\ ~validation.validated)
          => /\ pc = "done" /\ ~descriptor
             /\ result = InvalidConfigErr
    /\ descriptor => (validation.ran /\ validation.validated /\ ~validation.failed)

\* C14 witness: validation gave (false, nil) and run returned "invalid
\* configuration"
C14_Witness ==
    /\ validation.ran /\ ~validation.validated /\ ~validation.failed
    /\ pc = "done" /\ result = InvalidConfigErr

\* the errors a failing configuration stage makes run return
ErrorsOf(stage) ==
    CASE stage \in {"auxiliary storage", "hardware model", "machine identifier"}
           -> {Wrap(IdentityMsg(stage), IOErr)}
      [] stage = "disk image"
           -> {Wrap("failed to create block device configuration",
                    Wrap("failed to create disk image", IOErr))}
      [] stage = "attachment"
           -> {Wrap("failed to create block device configuration", AttachErr)}
      [] stage = "validate"
           -> {Wrap("failed to validate configuration", ValidateErr), InvalidConfigErr}
      [] OTHER -> {}

\* run returned because the configuration failed
ConfigFailed == pc = "done" /\ ~descriptor

\* C15: when a configuration stage fails, run returns that stage's error,
\* the stage that failed is the last one that ran, and the instance is never
\* created or started: no watcher, no callback, no stop request.
C15_ConfigFailureAborts ==
    /\ ConfigFailed
          => /\ stagesRun # <<>>
             /\ result \in ErrorsOf(stagesRun[Len(stagesRun)])
             /\ ~launched /\ vmState = "Created" /\ notifyQ = <<>>
             /\ wpc = "idle" /\ startCb = "none"
             /\ attempts = 0 /\ forcedStops = 0 /\ canStopLog = <<>>
    /\ launched => descriptor

\* C15 witness: the hardware-model stage failed; the machine identifier,
\* the block device and the validation never ran
C15_Witness ==
    /\ ConfigFailed
    /\ stagesRun = <<"auxiliary storage", "hardware model">>
    /\ result = Wrap("failed to create a new hardware model", IOErr)

\* C16 as stated: when the image already exists the block-device stage
\* succeeds and the content is kept; any other creation failure is returned
\* as a fatal error and no storage device is produced.
C16_ExistingImageSucceeds ==
    /\ diskCreate = "exists" => (storageDevice /\ disk = "guest data")
    /\ diskCreate = "io error"
          => /\ ~storageDevice /\ pc = "done"
             /\ result = Wrap("failed to create block device configuration",
                              Wrap("failed to create disk image", IOErr))

\* C16 amended: when the image already exists, that failure is not reported
\* and the content is kept; the stage then succeeds unless creating the
\* attachment fails, and then run returns the attachment's error.  Any other
\* creation failure is returned as a fatal error and no storage device is
\* produced.
C16_ExistingImageKept ==
    /\ diskCreate = "exists"
          => /\ disk = "guest data"
             /\ \/ storageDevice
                \/ /\ pc = "done"
                   /\ result = Wrap("failed to create block device configuration", AttachErr)
    /\ diskCreate = "io error"
          => /\ ~storageDevice /\ pc = "done"
             /\ result = Wrap("failed to create block device configuration",
                              Wrap("failed to create disk image", IOErr))

\* C16 witness: the image existed, the stage succeeded, the content is kept
C16_Witness == diskCreate = "exists" /\ storageDevice /\ disk = "guest data"

\* C17: errCh never makes a producer wait: neither the watcher nor the start
\* callback is ever at its send with the buffer full; errCh holds at most one
\* value, and none is left unread when run has returned.
C17_ProducersNeverBlock ==
    /\ Len(errCh) <= ChanCap
    /\ ~(wpc \in {"sendNil", "sendWrap"} /\ Len(errCh) = ChanCap)
    /\ ~(startCb = "sending" /\ Len(errCh) = ChanCap)
    /\ pc = "done" => errCh = <<>>

\* C18: once the merge loop has observed a Stopping/Stopped notification the
\* shutdown loop does not start another iteration (so it issues no further
\* stop request and no further forced stop), even if CanRequestStop still
\* answers true.
C18_NoStopAfterTerminal ==
    [][(StopObserved /\ pc = "check") => pc' # "request"]_vars

\* C19: the LockOSThread nesting counter is at least 1 wherever runVM calls
\* into the platform (Start, StartGraphicApplication, CanRequestStop,
\* RequestStop, Stop), the shutdown loop after the inner unlock included, and
\* it is 0 only before runVM has locked and after it has returned.
C19_ThreadPinned ==
    /\ pc \in {"launch", "gui", "inGui", "check", "request", "sleep", "escalate"}
          => lockDepth >= 1
    /\ pc = "inGui" => lockDepth = 2
    /\ lockDepth = 0 <=> pc \in {"enter", "done"}

\* C19 witness: the loop is about to issue a forced stop, after the inner
\* unlock, with the thread still locked
C19_Witness == pc = "escalate" /\ i > StopThreshold /\ lockDepth = 1

\* both loops have finished: the graphic application returned and the last
\* CanRequestStop answer was false
LoopsFinished == canStopLog # <<>> /\ canStopLog[Len(canStopLog)] = FALSE

\* the start callback sent its error
StartErrDelivered == "startCb" \in errChWriters

\* C20 as stated: run returns nil only if the watcher observed Stopping or
\* Stopped, a non-nil error only if the start callback delivered an error,
\* and never before the graphic application and the shutdown loop finished.
C20_ResultHasCause ==
    pc = "done"
        => /\ result = NilErr => StopObserved
           /\ result # NilErr => StartErrDelivered
           /\ LoopsFinished

\* C20 amended: the same, for every return of run after the instance was
\* launched (a configuration failure makes run return its error before).
C20_ResultHasCauseAfterLaunch ==
    (pc = "done" /\ launched)
        => /\ result = NilErr => StopObserved
           /\ result # NilErr => StartErrDelivered
           /\ LoopsFinished

\* C20 witness: run returned the wrapped start error after both loops
C20_Witness ==
    /\ pc = "done" /\ launched /\ LoopsFinished
    /\ result = WrapStartErr(StartErr) /\ StartErrDelivered
====
